---- MODULE Spec2Model ----
(***************************************************************************)
(* A model of smdba's PostgreSQL gate (src/src/smdba/postgresqlgate.py):   *)
(* the restore workflow, continuous-archiving enable/disable, and the      *)
(* configuration reconciliation (do_system_check).                         *)
(*                                                                         *)
(* Text is modelled as a sequence of atoms.  An atom is either one of the  *)
(* characters the code's parsing looks at (space, tab, '#', '=', quotes,   *)
(* '/', a digit) or a run of other characters that no parsing step of the  *)
(* code ever splits.  Python's string operations are then operators on     *)
(* these sequences.                                                        *)
(***************************************************************************)
EXTENDS Integers, Sequences, FiniteSets, TLC

(***************************************************************************)
(* Python string primitives                                                *)
(***************************************************************************)

\* The atoms str.strip() removes.
Whitespace == {" ", "\t"}

RECURSIVE lstrip(_)
lstrip(s) ==
    IF s # <<>> /\ Head(s) \in Whitespace THEN lstrip(Tail(s)) ELSE s

RECURSIVE rstrip(_)
rstrip(s) ==
    IF s # <<>> /\ s[Len(s)] \in Whitespace
    THEN rstrip(SubSeq(s, 1, Len(s) - 1)) ELSE s

\* str.strip()
strip(s) == rstrip(lstrip(s))

\* Index of the first occurrence of atom c in s, 0 when there is none.
RECURSIVE find(_, _)
find(s, c) ==
    IF s = <<>> THEN 0
    ELSE IF Head(s) = c THEN 1
    ELSE LET r == find(Tail(s), c) IN IF r = 0 THEN 0 ELSE r + 1

\* Index of the last occurrence of atom c in s, 0 when there is none.
RECURSIVE rfind(_, _)
rfind(s, c) ==
    IF s = <<>> THEN 0
    ELSE IF s[Len(s)] = c THEN Len(s)
    ELSE rfind(SubSeq(s, 1, Len(s) - 1), c)

\* str.split(c): the list of pieces between the occurrences of c.
RECURSIVE split(_, _)
split(s, c) ==
    LET i == find(s, c) IN
    IF i = 0 THEN <<s>>
    ELSE <<SubSeq(s, 1, i - 1)>> \o split(SubSeq(s, i + 1, Len(s)), c)

\* str.split(c, 1): at most one split.
split1(s, c) ==
    LET i == find(s, c) IN
    IF i = 0 THEN <<s>>
    ELSE <<SubSeq(s, 1, i - 1), SubSeq(s, i + 1, Len(s))>>

\* str.replace(c, d) for a single atom c and a replacement text d.
RECURSIVE replace(_, _, _)
replace(s, c, d) ==
    IF s = <<>> THEN <<>>
    ELSE (IF Head(s) = c THEN d ELSE <<Head(s)>>) \o replace(Tail(s), c, d)

\* sep.join(items)
RECURSIVE join(_, _)
join(items, sep) ==
    IF items = <<>> THEN <<>>
    ELSE IF Len(items) = 1 THEN items[1]
    ELSE items[1] \o sep \o join(Tail(items), sep)

\* filter(None, items): the non-empty pieces.
filterNone(items) == SelectSeq(items, LAMBDA x : x # <<>>)

\* Byte values of the atoms Python compares with '<' in this program.
ord ==
    "0" :> 48 @@ "1" :> 49 @@ "2" :> 50 @@ "3" :> 51 @@ "4" :> 52 @@
    "5" :> 53 @@ "6" :> 54 @@ "7" :> 55 @@ "8" :> 56 @@ "9" :> 57

\* a < b for Python 2 byte strings: lexicographic by byte value.
RECURSIVE strLess(_, _)
strLess(a, b) ==
    IF b = <<>> THEN FALSE
    ELSE IF a = <<>> THEN TRUE
    ELSE IF ord[Head(a)] # ord[Head(b)] THEN ord[Head(a)] < ord[Head(b)]
    ELSE strLess(Tail(a), Tail(b))

\* The decimal digits of a natural number: str(n).
RECURSIVE digits(_)
digits(n) ==
    LET d == <<"0", "1", "2", "3", "4", "5", "6", "7", "8", "9">> IN
    IF n < 10 THEN <<d[n + 1]>> ELSE digits(n \div 10) \o <<d[(n % 10) + 1]>>

(***************************************************************************)
(* Python values held in the configuration dictionary: a string read from  *)
(* the file, an int assigned by the policy, or None for a missing key.     *)
(***************************************************************************)
PyNone == [t |-> "none"]
PyStr(s) == [t |-> "str", s |-> s]
PyInt(n) == [t |-> "int", n |-> n]

\* str(v)
str(v) ==
    CASE v.t = "str" -> v.s
      [] v.t = "int" -> digits(v.n)
      [] v.t = "none" -> <<"None">>

\* Python truth value of v.
truthy(v) ==
    CASE v.t = "str" -> v.s # <<>>
      [] v.t = "int" -> v.n # 0
      [] v.t = "none" -> FALSE

\* v == s for a string literal s.
eqStr(v, s) == v.t = "str" /\ v.s = s

\* dict.get(k, default)
get(d, k, default) == IF k \in DOMAIN d THEN d[k] ELSE default

\* d[k] = v
put(d, k, v) == (k :> v) @@ d

(***************************************************************************)
(* Config Store Adapter: _get_conf and _write_conf.  A file is a record    *)
(* [exists, lines]; a line is a text without its newline.                  *)
(***************************************************************************)
NoFile == [exists |-> FALSE, lines |-> <<>>]
File(lines) == [exists |-> TRUE, lines |-> lines]

\* The loop of _get_conf over the lines of the file: blank lines and lines
\* starting with '#' are skipped, any other line is cut at the first '#',
\* split once at '=' and both halves stripped; a line that does not yield
\* exactly two halves raises GateException naming the line.
RECURSIVE parseConfLines(_, _)
RECURSIVE parseConfLine(_, _, _)
RECURSIVE parseConfItem(_, _, _, _)
parseConfLines(lines, conf) ==
    IF lines = <<>> THEN [ok |-> TRUE, conf |-> conf, line |-> <<>>]
    ELSE parseConfLine(strip(Head(lines)), Tail(lines), conf)

\* A reader that passes over a line it cannot split in two.
parseConfItemSkips(parts, line, rest, conf) ==
    IF Len(parts) # 2
    THEN parseConfLines(rest, conf)
    ELSE parseConfLines(rest, put(conf, strip(parts[1]), PyStr(strip(parts[2]))))

\* One stripped line of the file.
parseConfLine(line, rest, conf) ==
    IF line = <<>> \/ Head(line) = "#"
    THEN parseConfLines(rest, conf)
    ELSE parseConfItem(split1(strip(split(line, "#")[1]), "="), line, rest, conf)

\* "k, v = [el.strip() for el in ...]; conf[k] = v"
parseConfItem(parts, line, rest, conf) ==
    IF Len(parts) # 2
    THEN [ok |-> FALSE, conf |-> conf, line |-> line]
    ELSE parseConfLines(rest, put(conf, strip(parts[1]), PyStr(strip(parts[2]))))

\* _get_conf(conf_path): [ok, conf, line]; ok is FALSE when the file is
\* missing ("Cannot open config") or a line cannot be parsed.
_get_conf(file) ==
    IF ~file.exists THEN [ok |-> FALSE, conf |-> <<>>, line |-> <<>>]
    ELSE parseConfLines(file.lines, <<>>)

\* data.items(): the (key, value) pairs of a dictionary in the dictionary's
\* own (fixed, unspecified) order.
RECURSIVE itemsOf(_, _)
itemsOf(d, keys) ==
    IF keys = {} THEN <<>>
    ELSE LET k == CHOOSE x \in keys : TRUE IN
         <<<<k, d[k]>>>> \o itemsOf(d, keys \ {k})

items(d) == itemsOf(d, DOMAIN d)

\* '%s = %s\n' % items
formatItem(kv) == kv[1] \o <<" ", "=", " ">> \o str(kv[2])

\* '\t'.join(items) + "\n"
formatRow(row) == join(row, <<"\t">>)

\* The lines written for a list of (key, value) pairs.
RECURSIVE formatItems(_)
formatItems(its) ==
    IF its = <<>> THEN <<>> ELSE <<formatItem(Head(its))>> \o formatItems(Tail(its))

\* The lines written for a table of rows.
RECURSIVE formatRows(_)
formatRows(table) ==
    IF table = <<>> THEN <<>> ELSE <<formatRow(Head(table))>> \o formatRows(Tail(table))

\* _write_conf(conf_path, *table, **data) at wall-clock second ts.
\* file: the file at conf_path; siblings: the timestamped siblings of
\* conf_path, by timestamp.  Yields the new file, the new siblings, the
\* returned backup (the timestamp of the sibling, or -1 for None) and
\* whether IOError was raised.
_write_conf(file, siblings, ts, table, data) ==
    LET renamed == file.exists
        sib     == IF renamed THEN [siblings EXCEPT ![ts] = file] ELSE siblings
        backup  == IF renamed THEN ts ELSE -1
        hasData  == DOMAIN data # {}
        hasTable == table # <<>>
    IN  IF hasData \/ hasTable
        THEN [file |-> File(IF hasData /\ ~hasTable
                            THEN formatItems(items(data))
                            ELSE IF hasTable /\ ~hasData
                            THEN formatRows(table)
                            ELSE <<>>),
              siblings |-> sib, backup |-> backup, raised |-> FALSE]
        ELSE [file |-> IF renamed THEN NoFile ELSE file,
              siblings |-> sib, backup |-> backup, raised |-> TRUE]

(***************************************************************************)
(* PgTune: the built-in tuner.  Memory is counted in KB (the code divides  *)
(* the byte count by KB before using it).                                  *)
(***************************************************************************)
KB == 1024
MB == KB * 1024

\* Binary rounding: keep 4 significant bits, truncate the rest.
RECURSIVE brLoop(_, _)
brLoop(value, m) ==
    IF value > 16 THEN brLoop(value \div 2, m * 2) ELSE m * value

br(value) == brLoop(value, 1)

toMB(value) == digits(value \div 1024) \o <<"MB">>

max_connections == 80

\* PgTune().estimate().config for a host with memKB of memory:
\* [ok, config]; ok is FALSE where estimate raises.
estimate(memKB) ==
    IF memKB = 0 \/ memKB > 255 * MB
    THEN [ok |-> FALSE, config |-> <<>>]
    ELSE LET checkpoint_segments == 8 IN
         [ok |-> TRUE,
          config |->
            <<"shared_buffers">> :> PyStr(toMB(br(memKB \div 4))) @@
            <<"effective_cache_size">> :> PyStr(toMB(br((memKB * 3) \div 4))) @@
            <<"work_mem">> :> PyStr(toMB(br(memKB \div max_connections))) @@
            <<"maintenance_work_mem">> :>
                PyStr(toMB(br(IF memKB \div 16 > MB THEN MB ELSE memKB \div 16))) @@
            <<"checkpoint_segments">> :> PyInt(checkpoint_segments) @@
            <<"checkpoint_completion_target">> :> PyStr(<<"0", ".", "7">>) @@
            <<"wal_buffers">> :> PyStr(toMB(512 * checkpoint_segments)) @@
            <<"constraint_exclusion">> :> PyStr(<<"off">>) @@
            <<"default_statistics_target">> :> PyInt(10) @@
            <<"max_connections">> :> PyInt(max_connections)]

(***************************************************************************)
(* Reconciliation (do_system_check): the policy as a function of the       *)
(* configuration dictionary and of the authentication rule table.          *)
(***************************************************************************)
K(name) == <<name>>

NoOpCommand == <<"'", "/bin/true", "'">>

\* The archive_command that enable writes for destination backup_dir.
EnabledCommand(backup_dir) ==
    <<"'", "/usr/bin/smdba-pgarchive", " ", "--source", " ", "\"", "%p", "\"",
      " ", "--destination", " ", "\"">> \o backup_dir \o <<"/", "%f", "\"", "'">>

\* The built-in tuner loop: every key of the profile is merged; changed is
\* flagged when a value differs (as text) from the current one.
RECURSIVE tuneLoop(_, _)
tuneLoop(st, its) ==
    IF its = <<>> THEN st
    ELSE LET item  == its[1][1]
             value == its[1][2]
         IN tuneLoop([conf |-> put(st.conf, item, value),
                      changed |-> st.changed
                                  \/ str(get(st.conf, item, PyNone)) # str(value)],
                     Tail(its))

\* "WAL should be at least archive."
ruleWalLevel(st) ==
    IF ~truthy(get(st.conf, K("wal_level"), PyNone))
       \/ eqStr(get(st.conf, K("wal_level"), PyNone), <<"minimal">>)
    THEN [conf |-> put(st.conf, K("wal_level"), PyStr(<<"archive">>)),
          changed |-> st.changed]
    ELSE st

\* A rule that writes a value it will flag again.
ruleWalSendersWritesFour(st) ==
    LET v == get(st.conf, K("max_wal_senders"), PyNone) IN
    IF ~truthy(v) \/ strLess(v.s, <<"5">>)
    THEN [conf |-> put(st.conf, K("max_wal_senders"), PyInt(4)), changed |-> TRUE]
    ELSE st

\* "WAL senders at least 5": the comparison is between strings.
ruleWalSenders(st) ==
    LET v == get(st.conf, K("max_wal_senders"), PyNone) IN
    IF ~truthy(v) \/ strLess(v.s, <<"5">>)
    THEN [conf |-> put(st.conf, K("max_wal_senders"), PyInt(5)), changed |-> TRUE]
    ELSE st

\* "WAL keep segments must be non-zero"
ruleWalKeepSegments(st) ==
    IF eqStr(get(st.conf, K("wal_keep_segments"), PyStr(<<"0">>)), <<"0">>)
    THEN [conf |-> put(st.conf, K("wal_keep_segments"), PyInt(64)), changed |-> TRUE]
    ELSE st

\* "Should run in archive mode"
ruleArchiveMode(st) ==
    IF ~eqStr(get(st.conf, K("archive_mode"), PyStr(<<"off">>)), <<"on">>)
    THEN [conf |-> put(st.conf, K("archive_mode"), PyStr(<<"on">>)), changed |-> TRUE]
    ELSE st

\* "Stub"
\* A rule that leaves the archive command as it finds it.
ruleArchiveCommandKeeps(st) == st

ruleArchiveCommand(st) ==
    IF ~eqStr(get(st.conf, K("archive_command"), PyStr(<<>>)), NoOpCommand)
    THEN [conf |-> put(st.conf, K("archive_command"), PyStr(NoOpCommand)),
          changed |-> TRUE]
    ELSE st

ruleStandardConformingStrings(st) ==
    IF ~eqStr(get(st.conf, K("standard_conforming_strings"), PyStr(<<"on">>)),
              <<"'", "off", "'">>)
    THEN [conf |-> put(st.conf, K("standard_conforming_strings"),
                       PyStr(<<"'", "off", "'">>)),
          changed |-> TRUE]
    ELSE st

\* bnc#775591
ruleByteaOutput(st) ==
    IF ~eqStr(get(st.conf, K("bytea_output"), PyStr(<<>>)), <<"'", "escape", "'">>)
    THEN [conf |-> put(st.conf, K("bytea_output"), PyStr(<<"'", "escape", "'">>)),
          changed |-> TRUE]
    ELSE st

\* "Setup postgresql.conf": the rules in the order of the code, from the
\* dictionary read from the file; config is the tuner's profile (consulted
\* only with autotuning).  Yields [conf, changed].
setupConf(conf, autotuning, config) ==
    LET s0 == [conf |-> conf, changed |-> FALSE]
        s1 == IF autotuning THEN tuneLoop(s0, items(config)) ELSE s0
    IN  ruleByteaOutput(
        ruleStandardConformingStrings(
        ruleArchiveCommand(
        ruleArchiveMode(
        ruleWalKeepSegments(
        ruleWalSenders(
        ruleWalLevel(s1)))))))

\* The rows of pg_hba.conf: blank and comment lines skipped, tabs made
\* spaces, split at spaces, empty pieces dropped.
RECURSIVE readHba(_)
RECURSIVE readHbaLine(_, _)
readHba(lines) ==
    IF lines = <<>> THEN <<>> ELSE readHbaLine(strip(Head(lines)), Tail(lines))

readHbaLine(line, rest) ==
    IF line = <<>> \/ Head(line) = "#" THEN readHba(rest)
    ELSE <<filterNone(split(replace(line, "\t", <<" ">>), " "))>> \o readHba(rest)

replication_cfg == <<K("local"), K("replication"), K("postgres"), K("peer")>>

\* x in list
contains(list, x) == \E i \in DOMAIN list : list[i] = x

\* An insertion that puts the rule first.
setupHbaPrepends(pg_hba_conf) ==
    IF ~contains(pg_hba_conf, replication_cfg)
    THEN [table |-> <<replication_cfg>> \o pg_hba_conf, hba_changed |-> TRUE]
    ELSE [table |-> pg_hba_conf, hba_changed |-> FALSE]

\* "Setup pg_hba.conf": yields [table, hba_changed].
setupHba(pg_hba_conf) ==
    IF ~contains(pg_hba_conf, replication_cfg)
    THEN [table |-> Append(pg_hba_conf, replication_cfg), hba_changed |-> TRUE]
    ELSE [table |-> pg_hba_conf, hba_changed |-> FALSE]

(***************************************************************************)
(* State                                                                   *)
(***************************************************************************)
VARIABLES
    pc,         \* position of the running command: "idle" or a step name
    op,         \* the command that runs or ran last
    arg,        \* its arguments
    ret,        \* where a restart returns to
    result,     \* how the last command ended
    trace,      \* the external effects of the current command, in order
    hasPgConf,  \* the gate loaded the backend configuration (pcnf_data_directory)
    pidFile,    \* postmaster.pid exists in the data directory
    procAlive,  \* the process postmaster.pid names is alive
    conf,       \* the file postgresql.conf of the data directory
    hba,        \* the file pg_hba.conf of the data directory
    confSib,    \* timestamped siblings of postgresql.conf
    hbaSib,     \* timestamped siblings of pg_hba.conf
    now,        \* wall-clock second
    mem,        \* host memory in KB (0: cannot be determined)
    dataIsData, \* the last component of the data directory path is "data"
    pgData,     \* the data directory
    sibData,    \* dirname(data directory)/data, when that is another path
    oldDir,     \* dirname(data directory)/data.old
    bdir,       \* the backup destination directories
    sizes,      \* what du and df reported to the restore in progress
    rst,        \* the restore in progress: destination, extracted tree
    chk,        \* the reconciliation in progress or last run
    budget,     \* number of commands that may still be run
    wal,        \* the files archive operations read and write: [src, dst]
    io          \* the last call of a function of the gate on its own, and what it gave

ctl     == <<pc, op, arg, ret, result, trace, hasPgConf>>
cluster == <<pidFile, procAlive>>
files   == <<conf, hba, confSib, hbaSib>>
host    == <<now, mem, dataIsData, wal, io>>
dirs    == <<pgData, sibData, oldDir, bdir>>
session == <<sizes, rst, chk>>
vars    == <<ctl, cluster, files, host, dirs, session, budget>>

\* Bounds of the model.
MaxTime == 1
MaxOps == 1
MaxRuns == 2
MaxCalls == 2
MaxSeq == 2

Times == 0..MaxTime
Dirs == {"b1", "b2"}
DirPath(d) == <<"/", d>>

NoTar == [kind |-> "absent", conf |-> NoFile, hba |-> NoFile]
NoBackupDir == [exists |-> FALSE, base |-> NoTar, old |-> NoTar]
NoDataDir == [exists |-> FALSE, content |-> "none", recovery |-> <<>>, nested |-> FALSE]
ClusterDir == [exists |-> TRUE, content |-> "cluster", recovery |-> <<>>, nested |-> FALSE]
NoSiblings == [t \in Times |-> NoFile]
NoSizes == [cur |-> -1, bk |-> -1, avail |-> -1]
NoRestore == [dst |-> <<>>, tree |-> NoTar, root |-> FALSE]
NoWal == [src |-> <<>>, dst |-> <<>>]
NoCall == [call |-> "none"]
NoCheck == [runs |-> 0, opt |-> "none", prevOpt |-> "none", completed |-> FALSE,
            changed |-> FALSE, hba_changed |-> FALSE,
            preConf |-> NoFile, preHba |-> NoFile]

(***************************************************************************)
(* Cluster Process Controller                                              *)
(***************************************************************************)
\* _get_db_status(): the marker exists and /proc/<pid> exists.
_get_db_status == pidFile /\ procAlive

\* The command ends: by return, by sys.exit or by an uncaught exception.
Finish(res) == pc' = "idle" /\ result' = res /\ ret' = "idle"

Log(events) == trace' = trace \o events

\* do_db_stop raises GateException when the status is running and the gate
\* holds no pcnf_data_directory.
StopRaises == _get_db_status /\ ~hasPgConf

\* do_db_stop(), pg_ctl stop ending with exit status 0 (ok) or not:
\* a no-op reporting "failed" when the status is not running.
do_db_stop(ok) ==
    IF ~_get_db_status
    THEN /\ UNCHANGED cluster
         /\ Log(<<"stop:noop">>)
    ELSE /\ pidFile' = (IF ok THEN FALSE ELSE pidFile)
         /\ procAlive' = (IF ok THEN FALSE ELSE procAlive)
         /\ Log(<<IF ok THEN "stop:ok" ELSE "stop:failed">>)

\* os.chdir in do_db_start raises OSError when the directory is missing.
StartRaises == ~_get_db_status /\ hasPgConf /\ ~pgData.exists

\* pg_ctl start can succeed only on an existing cluster that is not running.
CanStart == pgData.exists /\ pgData.content \in {"cluster", "restored"} /\ ~procAlive

\* do_db_start(), pg_ctl start ending with exit status 0 (ok) or not:
\* a no-op reporting "failed" when the status is running.
do_db_start(ok) ==
    IF _get_db_status
    THEN /\ UNCHANGED cluster
         /\ Log(<<"start:noop">>)
    ELSE /\ pidFile' = (IF ok /\ CanStart THEN TRUE ELSE pidFile)
         /\ procAlive' = (IF ok /\ CanStart THEN TRUE ELSE procAlive)
         /\ Log(<<IF ok /\ CanStart THEN "start:ok" ELSE "start:failed">>)

\* The restart of _restart_db and of do_system_check:
\* "if self._get_db_status(): self.do_db_stop()" ...
RestartStop ==
    /\ pc = "restart_stop"
    /\ IF StopRaises
       THEN /\ Finish("GateException")
            /\ UNCHANGED <<op, arg, trace, hasPgConf, cluster>>
       ELSE /\ pc' = "restart_start"
            /\ IF _get_db_status
               THEN \E ok \in BOOLEAN : do_db_stop(ok)
               ELSE UNCHANGED <<trace, cluster>>
            /\ UNCHANGED <<op, arg, ret, result, hasPgConf>>
    /\ UNCHANGED <<files, host, dirs, session, budget>>

\* ... "self.do_db_start(); self.do_db_status()", then back to the caller.
RestartStart ==
    /\ pc = "restart_start"
    /\ IF StartRaises
       THEN /\ Finish("OSError")
            /\ UNCHANGED <<op, arg, trace, hasPgConf, cluster>>
       ELSE /\ \E ok \in BOOLEAN : do_db_start(ok)
            /\ pc' = ret
            /\ ret' = "idle"
            /\ result' = (IF ret = "idle" THEN "done" ELSE result)
            /\ UNCHANGED <<op, arg, hasPgConf>>
    /\ UNCHANGED <<files, host, dirs, session, budget>>

\* PgSQLGate.__init__ for a new command: _get_pg_data raises when the data
\* directory is missing; the backend configuration is loaded only when the
\* cluster is running.
GateRaises == ~pgData.exists

NoArgs == [enable |-> "", dir |-> <<>>]

Begin(name, a) ==
    /\ pc = "idle"
    /\ budget > 0
    /\ budget' = budget - 1
    /\ op' = name
    /\ arg' = a
    /\ hasPgConf' = _get_db_status

(***************************************************************************)
(* Reconciliation Engine: do_system_check                                  *)
(***************************************************************************)
\* "Commit the changes": each file is written when its own flag is set.
\* c: [conf, changed]; h: [table, hba_changed].
commitConfAlways(cf, cs, ts, c) == _write_conf(cf, cs, ts, <<>>, c.conf)

commitConf(cf, cs, ts, c) ==
    IF c.changed THEN _write_conf(cf, cs, ts, <<>>, c.conf)
    ELSE [file |-> cf, siblings |-> cs, backup |-> -1, raised |-> FALSE]

commitHba(hf, hs, ts, h) ==
    IF h.hba_changed THEN _write_conf(hf, hs, ts, h.table, <<>>)
    ELSE [file |-> hf, siblings |-> hs, backup |-> -1, raised |-> FALSE]

checkOutcome(c, h, wc, wh) ==
    [raised |-> FALSE, changed |-> c.changed, hba_changed |-> h.hba_changed,
     conf |-> wc.file, hba |-> wh.file,
     confSib |-> wc.siblings, hbaSib |-> wh.siblings]

checkCommit(cf, hf, cs, hs, ts, c, h) ==
    checkOutcome(c, h, commitConf(cf, cs, ts, c), commitHba(hf, hs, ts, h))

\* rd: what _get_conf returned; tune: what the tuner returned.
checkRead(cf, hf, cs, hs, ts, autotuning, rd, tune) ==
    IF ~rd.ok \/ ~tune.ok \/ ~hf.exists
    THEN [raised |-> TRUE, changed |-> FALSE, hba_changed |-> FALSE,
          conf |-> cf, hba |-> hf, confSib |-> cs, hbaSib |-> hs]
    ELSE checkCommit(cf, hf, cs, hs, ts,
                     setupConf(rd.conf, autotuning, tune.config),
                     setupHba(readHba(hf.lines)))

\* What do_system_check computes and writes, from the two files at second
\* ts: [raised, changed, hba_changed, conf, hba, confSib, hbaSib].
systemCheck(cf, hf, cs, hs, ts, autotuning, memKB) ==
    checkRead(cf, hf, cs, hs, ts, autotuning, _get_conf(cf),
              IF autotuning THEN estimate(memKB)
              ELSE [ok |-> TRUE, config |-> <<>>])

\* do_system_check up to "# Restart".
SystemCheck(autotuning) ==
    /\ Begin("check", NoArgs)
    /\ IF GateRaises
       THEN /\ Finish("GateException")
            /\ trace' = <<>>
            /\ UNCHANGED <<files, chk>>
       ELSE \E r \in {systemCheck(conf, hba, confSib, hbaSib, now, autotuning, mem)} :
            /\ conf' = r.conf
            /\ hba' = r.hba
            /\ confSib' = r.confSib
            /\ hbaSib' = r.hbaSib
            /\ chk' = [runs |-> chk.runs + 1,
                       opt |-> IF autotuning THEN "autotuning" ELSE "plain",
                       prevOpt |-> chk.opt,
                       completed |-> ~r.raised,
                       changed |-> r.changed, hba_changed |-> r.hba_changed,
                       preConf |-> conf, preHba |-> hba]
            /\ trace' = (IF r.changed THEN <<"write_conf">> ELSE <<>>)
                        \o (IF r.hba_changed THEN <<"write_hba">> ELSE <<>>)
            /\ IF r.raised THEN Finish("Exception")
               ELSE IF r.changed \/ r.hba_changed
               THEN pc' = "restart_stop" /\ ret' = "idle" /\ result' = "running"
               ELSE Finish("done")
    /\ sizes' = NoSizes
    /\ UNCHANGED <<cluster, host, dirs, rst>>

(***************************************************************************)
(* Initial states                                                          *)
(***************************************************************************)
\* A line the file does not have.
Absent == <<"<absent>">>

ConfLine(k, v) == <<k, " ", "=", " ">> \o v

\* The lines a previous autotuning run wrote for a host of memKB.
TunedLines(memKB) == formatItems(items(estimate(memKB).config))

\* A postgresql.conf as an administrator or this program leaves it, from the
\* values of the seven parameters of the policy and the lines of the tuner.
ConfFile(wl, mws, wks, am, ac, scs, bo, tuned) ==
    LET present(l) == l[5] # Absent[1] IN
    File(<<<<"#", " ", "PostgreSQL configuration file">>, <<>>>>
         \o SelectSeq(<<ConfLine("wal_level", wl),
                        ConfLine("max_wal_senders", mws)
                            \o <<"\t", "#", " ", "replication">>,
                        ConfLine("wal_keep_segments", wks),
                        ConfLine("archive_mode", am),
                        ConfLine("archive_command", ac),
                        ConfLine("standard_conforming_strings", scs),
                        ConfLine("bytea_output", bo)>>, present)
         \o tuned)

HostMemKB == 4194304

\* The file reconciliation leaves behind, with the archive command given.
CompliantConf(archive_command) ==
    ConfFile(<<"archive">>, <<"5">>, <<"6", "4">>, <<"on">>, archive_command,
             <<"'", "off", "'">>, <<"'", "escape", "'">>, <<>>)

\* A postgresql.conf with backups enabled and, among its lines, one that has
\* no '=' (PostgreSQL itself reads "include 'extra.conf'").
IncludeLine == <<" ", "include", " ", "'", "extra.conf", "'">>

BrokenConf ==
    File(<<Head(CompliantConf(EnabledCommand(DirPath("b1"))).lines), IncludeLine>>
         \o Tail(CompliantConf(EnabledCommand(DirPath("b1"))).lines))

HbaAll == <<"local", "\t", "all", " ", " ", "all", "\t", "peer">>
HbaHost == <<"host", " ", "all", " ", "all", " ", "127.0.0.1/32", " ", "md5">>
HbaRepl == <<"local", " ", "replication", " ", "postgres", " ", "peer">>

HbaFiles ==
    {File(<<<<"#", " ", "TYPE", " ", "DATABASE">>, HbaAll, <<>>, HbaHost>>),
     File(<<HbaAll, HbaRepl, HbaHost>>),
     File(<<HbaRepl \o <<" ", "#", " ", "replication">>, HbaAll>>)}

InitCommon ==
    /\ pc = "idle"
    /\ op = "none"
    /\ arg = NoArgs
    /\ ret = "idle"
    /\ result = "none"
    /\ trace = <<>>
    /\ hasPgConf = FALSE
    /\ confSib = NoSiblings
    /\ hbaSib = NoSiblings
    /\ now = 0
    /\ pgData = ClusterDir
    /\ oldDir = [exists |-> FALSE, tars |-> {}]
    /\ sizes = NoSizes
    /\ rst = NoRestore
    /\ chk = NoCheck

\* Reconciliation alone, from every configuration of a bounded family.
InitCheck ==
    /\ InitCommon
    /\ wal = NoWal
    /\ io = NoCall
    /\ budget = MaxRuns
    /\ conf \in {ConfFile(wl, mws, wks, ar[1], ar[2], cs[1], cs[2], tl) :
                   wl \in {Absent, <<"minimal">>, <<"archive">>},
                   mws \in {Absent, <<"3">>, <<"5">>, <<"1", "0">>},
                   wks \in {<<"0">>, <<"3", "2">>},
                   ar \in {<<<<"off">>, NoOpCommand>>,
                           <<<<"on">>, NoOpCommand>>,
                           <<<<"on">>, EnabledCommand(DirPath("b1"))>>},
                   cs \in {<<<<"on">>, Absent>>,
                           <<<<"'", "off", "'">>, <<"'", "escape", "'">>>>},
                   tl \in {<<>>, TunedLines(HostMemKB)}}
    /\ hba \in HbaFiles
    /\ pidFile \in BOOLEAN
    /\ procAlive = pidFile
    /\ mem = HostMemKB
    /\ dataIsData = TRUE
    /\ sibData = NoDataDir
    /\ bdir = [d \in Dirs |-> NoBackupDir]

NextCheck ==
    \/ \E autotuning \in BOOLEAN : SystemCheck(autotuning)
    \/ RestartStop
    \/ RestartStart

SpecCheck == InitCheck /\ [][NextCheck]_vars

(***************************************************************************)
(* Archival Controller: do_backup_status                                   *)
(***************************************************************************)
\* os.path.dirname
dirname(path) ==
    LET head == SubSeq(path, 1, rfind(path, "/")) IN
    IF head # <<>> /\ (\E j \in DOMAIN head : head[j] # "/")
    THEN SubSeq(head, 1, Len(head) - 1)
    ELSE head

\* os.path.exists for a backup destination path.
dirExists(b, path) == \E d \in Dirs : DirPath(d) = path /\ b[d].exists

\* The loop over the components of the archive command: the component after
\* the one starting with --destination gives the destination.
RECURSIVE destinationOf(_, _)
destinationOf(cmd, found_dest) ==
    IF cmd = <<>> THEN [found |-> FALSE, dst |-> <<>>]
    ELSE IF Head(cmd) # <<>> /\ Head(cmd)[1] = "--destination"
    THEN destinationOf(Tail(cmd), TRUE)
    ELSE IF found_dest
    THEN [found |-> TRUE,
          dst |-> dirname(replace(replace(Head(cmd), "\"", <<>>), "'", <<>>))]
    ELSE destinationOf(Tail(cmd), found_dest)

\* rd: what _get_conf returned.  os.listdir(backup_dst) raises OSError when
\* a destination is named and is no directory on disk.
statusOf(rd, b, dest) ==
    IF ~rd.ok THEN [raised |-> "GateException", dst |-> <<>>, on |-> FALSE]
    ELSE IF dest.dst # <<>> /\ ~dirExists(b, dest.dst)
    THEN [raised |-> "OSError", dst |-> dest.dst, on |-> FALSE]
    ELSE [raised |-> "", dst |-> dest.dst,
          on |-> dest.found /\ dirExists(b, dest.dst)]

statusRead(rd, b) ==
    statusOf(rd, b,
             IF rd.ok
             THEN destinationOf(
                      split(str(get(rd.conf, K("archive_command"), PyStr(<<>>))), " "),
                      FALSE)
             ELSE [found |-> FALSE, dst |-> <<>>])

\* do_backup_status('--silent'): [raised, dst, on] from postgresql.conf cf
\* and the backup directories b.
do_backup_status(cf, b) == statusRead(_get_conf(cf), b)

(***************************************************************************)
(* Restore Engine: do_backup_restore                                       *)
(***************************************************************************)
\* Sizes are counted in MiB.
GiB == 1024
MinFree == GiB

CurSizes == {100 * GiB}
BkSizes == {40 * GiB}
AvailSizes == {50 * GiB, 100 * GiB, 160 * GiB}

\* "At least 1GB free disk space required *after* restore from the backup"
enoughSpace(disk_size, curr_ts_size, bckp_ts_size) ==
    ~(disk_size - curr_ts_size - bckp_ts_size < MinFree)

\* The directory the backup is moved to and recovery.conf is written in:
\* dirname(pg_data) + "/data".
TargetIsPgData == dataIsData
Target == IF TargetIsPgData THEN pgData ELSE sibData

\* A diagnostic that is printed without leaving the command.
RestoreAbortGoesOn(res) ==
    pc' = "rst_shutdown" /\ result' = res /\ ret' = "idle" /\ rst' = NoRestore

\* "print >> sys.stderr, ...; sys.exit(1)" of a failed requirement.
RestoreAbort(res) == Finish(res) /\ rst' = NoRestore

\* do_backup_restore up to "Requirements were met at this point".
RestoreBegin ==
    /\ Begin("restore", NoArgs)
    /\ trace' = <<>>
    /\ IF GateRaises
       THEN Finish("GateException") /\ sizes' = NoSizes /\ rst' = NoRestore
       ELSE \E st \in {do_backup_status(conf, bdir)} :
            IF st.raised # ""
            THEN Finish(st.raised) /\ sizes' = NoSizes /\ rst' = NoRestore
            ELSE IF ~st.on
            THEN RestoreAbort("no_backup") /\ sizes' = NoSizes
            ELSE \E cur \in CurSizes, bk \in BkSizes, avail \in AvailSizes :
                 /\ sizes' = [cur |-> cur, bk |-> bk, avail |-> avail]
                 /\ IF enoughSpace(avail, cur, bk)
                    THEN /\ pc' = "rst_shutdown"
                         /\ result' = "running"
                         /\ ret' = "idle"
                         /\ rst' = [NoRestore EXCEPT !.dst = st.dst]
                    ELSE RestoreAbort("no_space")
    /\ UNCHANGED <<cluster, files, host, dirs, chk>>

\* A shutdown that does not look at the status again after the stop.
RestoreShutdownUnchecked ==
    /\ pc = "rst_shutdown"
    /\ sizes' = NoSizes
    /\ IF ~_get_db_status
       THEN /\ pc' = "rst_quarantine"
            /\ UNCHANGED <<ret, result, trace, cluster>>
       ELSE IF StopRaises
       THEN /\ Finish("GateException")
            /\ UNCHANGED <<trace, cluster>>
       ELSE \E ok \in BOOLEAN :
            /\ do_db_stop(ok)
            /\ pc' = "rst_quarantine"
            /\ UNCHANGED <<ret, result>>
    /\ UNCHANGED <<op, arg, hasPgConf, files, host, dirs, rst, chk, budget>>

\* _rst_shutdown_db
RestoreShutdown ==
    /\ pc = "rst_shutdown"
    /\ sizes' = NoSizes
    /\ IF ~_get_db_status
       THEN /\ pc' = "rst_quarantine"
            /\ UNCHANGED <<ret, result, trace, cluster>>
       ELSE IF StopRaises
       THEN /\ Finish("GateException")
            /\ UNCHANGED <<trace, cluster>>
       ELSE \E ok \in BOOLEAN :
            /\ do_db_stop(ok)
            /\ IF ok
               THEN pc' = "rst_quarantine" /\ UNCHANGED <<ret, result>>
               ELSE Finish("stop_failed")
    /\ UNCHANGED <<op, arg, hasPgConf, files, host, dirs, rst, chk, budget>>

\* _rst_save_current_cluster: the tar command's result is not looked at.
RestoreQuarantine ==
    /\ pc = "rst_quarantine"
    /\ \E out \in {"ok", "partial", "none"} :
         /\ oldDir' = [exists |-> TRUE,
                       tars |-> IF out = "none" THEN oldDir.tars
                                ELSE oldDir.tars \cup {out}]
         /\ Log(<<IF out = "ok" THEN "quarantine:ok" ELSE "quarantine:failed">>)
    /\ pc' = "rst_remove"
    /\ UNCHANGED <<op, arg, ret, result, hasPgConf, cluster, files, host,
                   pgData, sibData, bdir, session, budget>>

\* _rst_replace_new_backup: shutil.rmtree(pg_data)
RestoreRemove ==
    /\ pc = "rst_remove"
    /\ IF ~pgData.exists
       THEN /\ Finish("OSError")
            /\ UNCHANGED <<trace, cluster, files, pgData>>
       ELSE /\ pgData' = NoDataDir
            /\ conf' = NoFile
            /\ hba' = NoFile
            /\ pidFile' = FALSE
            /\ Log(<<"rmtree">>)
            /\ pc' = "rst_extract"
            /\ UNCHANGED <<ret, result, procAlive, confSib, hbaSib>>
    /\ UNCHANGED <<op, arg, hasPgConf, host, sibData, oldDir, bdir, session, budget>>

\* What tar xf can leave in the temporary directory, from the archive.
Extracted(base) ==
    IF base.kind = "full"
    THEN {base, [base EXCEPT !.kind = "partial"], NoTar}
    ELSE IF base.kind = "partial" THEN {base, NoTar}
    ELSE {NoTar}

BaseOf(b, path) ==
    IF dirExists(b, path)
    THEN b[CHOOSE d \in Dirs : DirPath(d) = path].base
    ELSE NoTar

\* _rst_replace_new_backup: tar xf base.tar.gz into a temporary directory;
\* the command's result is not looked at.
RestoreExtract ==
    /\ pc = "rst_extract"
    /\ \E tree \in Extracted(BaseOf(bdir, rst.dst)) :
         /\ rst' = [rst EXCEPT !.tree = tree]
         /\ Log(<<IF tree.kind = "full" THEN "extract:ok" ELSE "extract:failed">>)
    /\ pc' = "rst_move"
    /\ UNCHANGED <<op, arg, ret, result, hasPgConf, cluster, files, host,
                   dirs, sizes, chk, budget>>

\* _rst_get_backup_root on the extracted tree: backup_label is the first
\* member of a base backup, so any extracted part has it at its top.
_rst_get_backup_root(tree) == tree.kind # "absent"

\* mv of the backup root onto a path: a rename when nothing is there, a move
\* into the directory when one is.
Moved(dir, tree) ==
    IF dir.exists THEN [dir EXCEPT !.nested = TRUE]
    ELSE [exists |-> TRUE,
          content |-> IF tree.kind = "full" THEN "restored" ELSE "partial",
          recovery |-> <<>>, nested |-> FALSE]

\* _rst_replace_new_backup: /bin/mv backup_root dirname(pg_data)/data;
\* the command's result is not looked at.  With no root found the command
\* names the path None, and the working directory of these commands holds no
\* such entry: the command fails.
RestoreMove ==
    /\ pc = "rst_move"
    /\ \E ok \in BOOLEAN :
         IF ok /\ _rst_get_backup_root(rst.tree)
         THEN /\ Log(<<"mv:ok">>)
              /\ IF TargetIsPgData
                 THEN /\ pgData' = Moved(pgData, rst.tree)
                      /\ conf' = (IF pgData.exists THEN conf ELSE rst.tree.conf)
                      /\ hba' = (IF pgData.exists THEN hba ELSE rst.tree.hba)
                      /\ UNCHANGED sibData
                 ELSE /\ sibData' = Moved(sibData, rst.tree)
                      /\ UNCHANGED <<pgData, conf, hba>>
         ELSE /\ Log(<<"mv:failed">>)
              /\ UNCHANGED <<pgData, sibData, conf, hba>>
    /\ pc' = "rst_recovery"
    /\ UNCHANGED <<op, arg, ret, result, hasPgConf, cluster, confSib, hbaSib,
                   host, oldDir, bdir, session, budget>>

\* "restore_command = 'cp " + backup_dst + "/%f %p'\n"
RecoveryConf(backup_dst) ==
    <<"restore_command", " ", "=", " ", "'", "cp", " ">> \o backup_dst
    \o <<"/", "%f", " ", "%p", "'">>

\* _rst_replace_new_backup: "Write recovery.conf"; open raises IOError when
\* the directory is not there.
RestoreRecovery ==
    /\ pc = "rst_recovery"
    /\ IF ~Target.exists
       THEN /\ Finish("IOError")
            /\ UNCHANGED <<trace, pgData, sibData>>
       ELSE /\ IF TargetIsPgData
               THEN /\ pgData' = [pgData EXCEPT !.recovery = RecoveryConf(rst.dst)]
                    /\ UNCHANGED sibData
               ELSE /\ sibData' = [sibData EXCEPT !.recovery = RecoveryConf(rst.dst)]
                    /\ UNCHANGED pgData
            /\ Log(<<"recovery">>)
            /\ pc' = "rst_start"
            /\ UNCHANGED <<ret, result>>
    /\ UNCHANGED <<op, arg, hasPgConf, cluster, files, host, oldDir, bdir, session, budget>>

\* do_backup_restore: self.do_db_start()
RestoreStart ==
    /\ pc = "rst_start"
    /\ IF StartRaises
       THEN /\ Finish("OSError")
            /\ UNCHANGED <<trace, cluster>>
       ELSE /\ \E ok \in BOOLEAN : do_db_start(ok)
            /\ Finish("done")
    /\ UNCHANGED <<op, arg, hasPgConf, files, host, dirs, session, budget>>

(***************************************************************************)
(* Archival Controller: _perform_enable_backups                            *)
(***************************************************************************)
DirOf(path) == CHOOSE d \in Dirs : DirPath(d) = path

\* "conf['archive_command'] = cmd; self._write_conf(conf_path, **conf)" when
\* the stored command differs from cmd: [wrote, file, siblings].
setArchiveCommand(rd, cf, cs, ts, cmd) ==
    IF ~eqStr(get(rd.conf, K("archive_command"), PyStr(<<>>)), cmd)
    THEN [wrote |-> TRUE] @@
         _write_conf(cf, cs, ts, <<>>, put(rd.conf, K("archive_command"), PyStr(cmd)))
    ELSE [wrote |-> FALSE, file |-> cf, siblings |-> cs]

\* _perform_enable_backups with enable == 'on', up to the status check.
EnableBegin(d) ==
    /\ Begin("enable", [enable |-> "on", dir |-> DirPath(d)])
    /\ trace' = <<>>
    /\ sizes' = NoSizes
    /\ IF GateRaises \/ ~_get_conf(conf).ok
       THEN Finish("GateException")
       ELSE pc' = "en_start" /\ result' = "running" /\ ret' = "idle"
    /\ UNCHANGED <<cluster, files, host, dirs, rst, chk>>

\* "if not self._get_db_status(): self.do_db_start()" and
\* "if not self._get_db_status(): raise GateException(...)".
EnableStart ==
    /\ pc = "en_start"
    /\ IF _get_db_status
       THEN /\ pc' = "en_conf"
            /\ UNCHANGED <<ret, result, trace, cluster>>
       ELSE IF StartRaises
       THEN /\ Finish("OSError")
            /\ UNCHANGED <<trace, cluster>>
       ELSE \E ok \in BOOLEAN :
            /\ do_db_start(ok)
            /\ IF ok /\ CanStart
               THEN pc' = "en_conf" /\ UNCHANGED <<ret, result>>
               ELSE Finish("GateException")
    /\ UNCHANGED <<op, arg, hasPgConf, files, host, dirs, session, budget>>

\* The destination directory is made when missing (the command's result is
\* not looked at); the archive command is written when it differs, and then
\* the cluster is restarted.
EnableConf ==
    /\ pc = "en_conf"
    /\ \E mk \in BOOLEAN :
         /\ bdir' = IF ~dirExists(bdir, arg.dir) /\ mk
                    THEN [bdir EXCEPT ![DirOf(arg.dir)].exists = TRUE]
                    ELSE bdir
         /\ \E w \in {setArchiveCommand(_get_conf(conf), conf, confSib, now,
                                        EnabledCommand(arg.dir))} :
              /\ conf' = w.file
              /\ confSib' = w.siblings
              /\ Log((IF ~dirExists(bdir, arg.dir)
                      THEN <<IF mk THEN "mkdir:ok" ELSE "mkdir:failed">> ELSE <<>>)
                     \o (IF w.wrote THEN <<"write_conf">> ELSE <<>>))
              /\ IF w.wrote
                 THEN pc' = "restart_stop" /\ ret' = "en_rotate"
                 ELSE pc' = "en_rotate" /\ UNCHANGED ret
    /\ UNCHANGED <<op, arg, result, hasPgConf, cluster, hba, hbaSib, host,
                   pgData, sibData, oldDir, session, budget>>

\* "round robin of base backups"
Rotated(dir) ==
    IF dir.exists /\ dir.base.kind # "absent"
    THEN [dir EXCEPT !.old = dir.base, !.base = NoTar]
    ELSE dir

EnableRotate ==
    /\ pc = "en_rotate"
    /\ bdir' = [bdir EXCEPT ![DirOf(arg.dir)] = Rotated(@)]
    /\ Log(IF Rotated(bdir[DirOf(arg.dir)]) # bdir[DirOf(arg.dir)]
           THEN <<"rotate">> ELSE <<>>)
    /\ pc' = "en_backup"
    /\ UNCHANGED <<op, arg, ret, result, hasPgConf, cluster, files, host,
                   pgData, sibData, oldDir, session, budget>>

\* What pg_basebackup can leave as tmp/base.tar.gz: a full backup needs a
\* running server and the destination directory.
BaseBackups(dir) ==
    {NoTar} \cup
    (IF dir.exists /\ procAlive
     THEN {[kind |-> k, conf |-> conf, hba |-> hba] : k \in {"full", "partial"}}
     ELSE {})

\* pg_basebackup into tmp/ (the command's result is not looked at), then
\* "if os.path.exists(tmp/base.tar.gz): os.rename(...)".
EnableBaseBackup ==
    /\ pc = "en_backup"
    /\ \E tmp \in BaseBackups(bdir[DirOf(arg.dir)]) :
         /\ bdir' = IF tmp.kind # "absent"
                    THEN [bdir EXCEPT ![DirOf(arg.dir)].base = tmp]
                    ELSE bdir
         /\ Log(<<IF tmp.kind = "full" THEN "basebackup:ok" ELSE "basebackup:failed">>
                \o (IF tmp.kind # "absent" THEN <<"promote">> ELSE <<>>))
    /\ Finish("done")
    /\ UNCHANGED <<op, arg, hasPgConf, cluster, files, host,
                   pgData, sibData, oldDir, session, budget>>

\* _perform_enable_backups with enable other than 'on': "Disable backups".
Disable(d, enable) ==
    /\ Begin("disable", [enable |-> enable, dir |-> DirPath(d)])
    /\ sizes' = NoSizes
    /\ IF GateRaises \/ ~_get_conf(conf).ok
       THEN /\ Finish("GateException")
            /\ trace' = <<>>
            /\ UNCHANGED <<conf, confSib, bdir>>
       ELSE /\ bdir' = IF enable = "purge" /\ bdir[d].exists
                       THEN [bdir EXCEPT ![d] = NoBackupDir] ELSE bdir
            /\ \E w \in {setArchiveCommand(_get_conf(conf), conf, confSib, now,
                                           NoOpCommand)} :
                 /\ conf' = w.file
                 /\ confSib' = w.siblings
                 /\ trace' = (IF enable = "purge" /\ bdir[d].exists
                              THEN <<"purge">> ELSE <<>>)
                             \o (IF w.wrote THEN <<"write_conf">> ELSE <<>>)
                 /\ IF w.wrote
                    THEN pc' = "restart_stop" /\ ret' = "idle" /\ result' = "running"
                    ELSE Finish("done")
    /\ UNCHANGED <<cluster, hba, hbaSib, host, pgData, sibData, oldDir, rst, chk>>

(***************************************************************************)
(* Archival Controller: do_backup_hot with a source (archive_segment)      *)
(***************************************************************************)
\* The paths archive operations are called with.  wal.src gives the content
\* of each source path ("" when there is no such file), wal.dst the file at
\* each destination path.
Srcs == {"s1", "s2"}
Dsts == {"d1", "d2"}
NoSeg == [kind |-> "absent", data |-> ""]
Seg(kind, data) == [kind |-> kind, data |-> data]

\* An archive operation that does not look at the destination.
archiveRefusedNoDestinationTest(w, source, dest) ==
    IF dest = "" THEN "GateException"
    ELSE IF source = "" THEN "GateException"
    ELSE IF w.src[source] = "" THEN "GateException"
    ELSE ""

\* The checks of do_backup_hot and _perform_archive_operation before the
\* copy: "" when the copy is made, else the exception raised.
archiveRefused(w, source, dest) ==
    IF dest = "" THEN "GateException"
    ELSE IF source = "" THEN "GateException"
    ELSE IF w.src[source] = "" THEN "GateException"
    ELSE IF w.dst[dest].kind # "absent" THEN "GateException"
    ELSE ""

\* What shutil.copy2(source, dest) can leave at dest: the whole content, or
\* with an error raised part of it or nothing.
Copies(w, source) ==
    {Seg("full", w.src[source]), Seg("partial", w.src[source]), NoSeg}

\* do_backup_hot(source=..., backup-dir=...)
ArchiveSegment(source, dest) ==
    /\ Begin("archive", [source |-> source, dir |-> dest])
    /\ IF GateRaises
       THEN Finish("GateException") /\ trace' = <<>> /\ UNCHANGED wal
       ELSE IF archiveRefused(wal, source, dest) # ""
       THEN /\ Finish(archiveRefused(wal, source, dest))
            /\ trace' = <<>>
            /\ UNCHANGED wal
       ELSE \E copy \in Copies(wal, source) :
            /\ wal' = [wal EXCEPT !.dst[dest] = copy]
            /\ trace' = <<IF copy.kind = "full" THEN "copy:ok" ELSE "copy:failed">>
            /\ Finish(IF copy.kind = "full" THEN "done" ELSE "IOError")
    /\ sizes' = NoSizes
    /\ UNCHANGED <<cluster, files, now, mem, dataIsData, io, dirs, rst, chk>>

\* Archive operations alone, on a running cluster.
InitArchive ==
    /\ InitCommon
    /\ io = NoCall
    /\ budget = MaxCalls
    /\ conf = CompliantConf(EnabledCommand(DirPath("b1")))
    /\ hba = File(<<HbaAll, HbaRepl, HbaHost>>)
    /\ pidFile = TRUE
    /\ procAlive = TRUE
    /\ mem = HostMemKB
    /\ dataIsData = TRUE
    /\ sibData = NoDataDir
    /\ bdir = [d \in Dirs |-> NoBackupDir]
    /\ wal \in [src : [Srcs -> {"", "A", "B"}],
                dst : [Dsts -> {NoSeg, Seg("full", "O")}]]

NextArchive ==
    \E source \in Srcs \cup {""}, dest \in Dsts \cup {""} : ArchiveSegment(source, dest)

SpecArchive == InitArchive /\ [][NextArchive]_vars

(***************************************************************************)
(* The Config Store Adapter on its own: calls of _write_conf and _get_conf *)
(* on one path, at any wall-clock second.                                  *)
(***************************************************************************)
\* The key-value documents handed to _write_conf (**data): none, a plain
\* value, a value holding '#', a quoted value, and a number next to a quoted
\* value.
Docs ==
    { <<>>,
      K("k") :> PyStr(<<"v">>),
      K("k") :> PyStr(<<"a", "#", "b">>),
      K("k") :> PyStr(<<"'", "v", "'">>),
      (K("k") :> PyInt(5)) @@ (K("q") :> PyStr(<<"'", "a", "'">>)) }

\* The tables handed to _write_conf (*table): none, or one record.
Tables == { <<>>, <<replication_cfg>> }

\* The file found at the path before the first call.
FirstFile == File(<<K("k") \o <<" ", "=", " ", "o">>>>)

\* _write_conf(conf_path, *table, **data) called at the second `now`.
StoreWrite(table, data) ==
    /\ pc = "idle"
    /\ budget > 0
    /\ budget' = budget - 1
    /\ \E r \in {_write_conf(conf, confSib, now, table, data)} :
         /\ conf' = r.file
         /\ confSib' = r.siblings
         /\ io' = [call |-> "write", table |-> table, data |-> data,
                   backup |-> r.backup, raised |-> r.raised]
    /\ UNCHANGED <<ctl, cluster, hba, hbaSib, now, mem, dataIsData, wal, dirs, session>>

\* _get_conf(conf_path): the document read, or GateException.
StoreRead ==
    /\ pc = "idle"
    /\ budget > 0
    /\ budget' = budget - 1
    /\ \E r \in {_get_conf(conf)} :
         io' = [call |-> "read", ok |-> r.ok, conf |-> r.conf]
    /\ UNCHANGED <<ctl, cluster, files, now, mem, dataIsData, wal, dirs, session>>

InitStore ==
    /\ InitCommon
    /\ io = NoCall
    /\ wal = NoWal
    /\ budget = MaxCalls
    /\ conf \in {NoFile, FirstFile}
    /\ hba = NoFile
    /\ pidFile = FALSE
    /\ procAlive = FALSE
    /\ mem = HostMemKB
    /\ dataIsData = TRUE
    /\ sibData = NoDataDir
    /\ bdir = [d \in Dirs |-> NoBackupDir]

(***************************************************************************)
(* Cluster Process Controller: _get_db_status on its own, from the marker  *)
(* file postmaster.pid and the entries of /proc.  The commands above take  *)
(* the marker of a postmaster, which holds its process id.                 *)
(***************************************************************************)
\* The process ids seen in markers, and the markers: none, an empty file, a
\* file whose first line is empty, and files naming a process id.
Pids == {<<"17">>, <<"42">>, <<"99">>}

Markers ==
    { NoFile,
      File(<<>>),
      File(<<<<>>, <<"17">>>>),
      File(<<<<" ">>>>),
      File(<<<<"17">>>>),
      File(<<<<"17">>, <<"/var/lib/pgsql/data">>>>),
      File(<<<<" ", "42", " ">>>>),
      File(<<<<"99">>>>) }

\* open(pid_file).readline(): the first line, or '' at the end of the file.
readline(file) == IF file.lines = <<>> THEN <<>> ELSE Head(file.lines)

\* os.path.exists('/proc/' + name): /proc has one entry for each live
\* process, and '/proc/' itself exists.
procExists(live, name) == name = <<>> \/ name \in live

\* _get_db_status()
get_db_status(pid_file, live) ==
    IF pid_file.exists
    THEN procExists(live, strip(readline(pid_file)))
    ELSE FALSE

\* A call of _get_db_status on the marker and the processes of the state.
StatusQuery ==
    /\ pc = "idle"
    /\ budget > 0
    /\ budget' = budget - 1
    /\ io' = [io EXCEPT !.call = "status",
                        !.running = get_db_status(io.marker, io.live)]
    /\ UNCHANGED <<ctl, cluster, files, now, mem, dataIsData, wal, dirs, session>>

InitStatus ==
    /\ InitCommon
    /\ io \in [call : {"none"}, marker : Markers, live : SUBSET Pids,
               running : {FALSE}]
    /\ wal = NoWal
    /\ budget = MaxCalls
    /\ conf = NoFile
    /\ hba = NoFile
    /\ pidFile = FALSE
    /\ procAlive = FALSE
    /\ mem = HostMemKB
    /\ dataIsData = TRUE
    /\ sibData = NoDataDir
    /\ bdir = [d \in Dirs |-> NoBackupDir]

NextStatus == StatusQuery

SpecStatus == InitStatus /\ [][NextStatus]_vars

(***************************************************************************)
(* Cluster Process Controller: do_db_start and do_db_stop as commands,     *)
(* with what they do to /tmp and to the working directory.  io holds the   *)
(* socket artifacts in /tmp, the working directory of the process and the  *)
(* operations of the last call, in order.                                  *)
(***************************************************************************)
Socks == {".s.PGSQL.5432", ".s.PGSQL.5432.lock"}
Cwds == {"/root", "/var/lib/pgsql"}

Op(do, to) == [do |-> do, to |-> to]

\* do_db_stop with the cleanup moved before the server command.
stopOpsCleanupFirst(cwd, dir) ==
    <<Op("cleanup", ""), Op("chdir", dir), Op("pg_ctl", "stop"), Op("chdir", cwd)>>

\* do_db_start past its status test: _cleanup_pids, cwd = os.getcwd(),
\* os.chdir(dir), pg_ctl start, os.chdir(cwd).
startOps(cwd, dir) ==
    <<Op("cleanup", ""), Op("chdir", dir), Op("pg_ctl", "start"), Op("chdir", cwd)>>

\* do_db_stop past its status test: cwd = os.getcwd(), os.chdir(dir),
\* pg_ctl stop, os.chdir(cwd), _cleanup_pids.
stopOps(cwd, dir) ==
    <<Op("chdir", dir), Op("pg_ctl", "stop"), Op("chdir", cwd), Op("cleanup", "")>>

\* /tmp and the working directory after the operations: _cleanup_pids
\* unlinks every /tmp/.s.PGSQL.*, os.chdir sets the working directory.
RECURSIVE runOps(_, _)
runOps(e, ops) ==
    IF ops = <<>> THEN e
    ELSE runOps(CASE Head(ops).do = "cleanup" -> [e EXCEPT !.sockets = {}]
                  [] Head(ops).do = "chdir" -> [e EXCEPT !.cwd = Head(ops).to]
                  [] OTHER -> e,
                Tail(ops))

\* The directory the controller changes to: pcnf_data_directory of a gate
\* made while the cluster was running, else /var/lib/pgsql.
CtlDir(running) == IF running THEN "/var/lib/pgsql/data" ELSE "/var/lib/pgsql"

Called(name, ops) == [runOps(io, ops) EXCEPT !.call = name, !.ops = ops]

\* smdba db-start
DbStart ==
    /\ Begin("start", NoArgs)
    /\ IF GateRaises
       THEN /\ Finish("GateException")
            /\ io' = Called("start", <<>>)
            /\ UNCHANGED <<trace, cluster>>
       ELSE /\ \E ok \in BOOLEAN : do_db_start(ok)
            /\ io' = Called("start", IF _get_db_status THEN <<>>
                                     ELSE startOps(io.cwd, CtlDir(_get_db_status)))
            /\ Finish("done")
    /\ sizes' = NoSizes
    /\ UNCHANGED <<files, now, mem, dataIsData, wal, dirs, rst, chk>>

\* smdba db-stop
DbStop ==
    /\ Begin("stop", NoArgs)
    /\ IF GateRaises
       THEN /\ Finish("GateException")
            /\ io' = Called("stop", <<>>)
            /\ UNCHANGED <<trace, cluster>>
       ELSE /\ \E ok \in BOOLEAN : do_db_stop(ok)
            /\ io' = Called("stop", IF ~_get_db_status THEN <<>>
                                    ELSE stopOps(io.cwd, CtlDir(_get_db_status)))
            /\ Finish("done")
    /\ sizes' = NoSizes
    /\ UNCHANGED <<files, now, mem, dataIsData, wal, dirs, rst, chk>>

InitCtl ==
    /\ InitCommon
    /\ io \in [call : {"none"}, sockets : SUBSET Socks, cwd : Cwds, ops : {<<>>}]
    /\ wal = NoWal
    /\ budget = MaxCalls
    /\ conf = CompliantConf(NoOpCommand)
    /\ hba = File(<<HbaAll, HbaRepl, HbaHost>>)
    /\ pidFile \in BOOLEAN
    /\ procAlive \in BOOLEAN
    /\ procAlive => pidFile
    /\ mem = HostMemKB
    /\ dataIsData = TRUE
    /\ sibData = NoDataDir
    /\ bdir = [d \in Dirs |-> NoBackupDir]

NextCtl ==
    \/ DbStart
    \/ DbStop

SpecCtl == InitCtl /\ [][NextCtl]_vars

(***************************************************************************)
(* Restore Engine: the search for the root of the backup in the extracted  *)
(* tree, on its own.  A directory is the list of its entries in the order  *)
(* os.listdir gives them; a path is the list of names below the temporary  *)
(* directory.                                                              *)
(***************************************************************************)
Fl(name) == [name |-> name, dir |-> FALSE, sub |-> <<>>]
Dr(name, sub) == [name |-> name, dir |-> TRUE, sub |-> sub]

\* Directories without subdirectories.
Flat == { <<>>, <<Fl("backup_label")>>, <<Fl("PG_VERSION")>>,
          <<Fl("PG_VERSION"), Fl("backup_label")>> }

\* Directories with one level of subdirectories.
Shallow ==
    { <<Dr("a", x)>> : x \in Flat }
    \cup { <<Dr("a", x), Fl("PG_VERSION"), Dr("b", y)>> : x, y \in Flat }
    \cup { <<Dr("b", x), Fl("backup_label"), Dr("a", y)>> : x, y \in Flat }

\* The extracted trees.
Trees ==
    Flat \cup Shallow
    \cup { <<Dr("a", <<Dr("c", x), Dr("d", y)>>), Dr("b", z)>> :
             x \in Flat, y \in {<<>>, <<Fl("backup_label")>>},
             z \in {<<>>, <<Fl("backup_label")>>} }

NoRoot == [found |-> FALSE, path |-> <<>>]

\* 'backup_label' in fpath
hasLabel(fpath) == \E i \in DOMAIN fpath : fpath[i].name = "backup_label"

\* _rst_get_backup_root(path), fpath being os.listdir(path): the path when
\* the listing holds backup_label, else what the loop over the listing finds.
RECURSIVE get_backup_root(_, _)
RECURSIVE searchListing(_, _)
get_backup_root(fpath, path) ==
    IF hasLabel(fpath) THEN [found |-> TRUE, path |-> path]
    ELSE searchListing(fpath, path)

\* "for f in fpath: if os.path.isdir(f): found = ...; if found: break", on
\* what is left of the listing.
searchListing(rest, path) ==
    IF rest = <<>> THEN NoRoot
    ELSE IF Head(rest).dir
    THEN LET found == get_backup_root(Head(rest).sub, Append(path, Head(rest).name))
         IN  IF found.found THEN found ELSE searchListing(Tail(rest), path)
    ELSE searchListing(Tail(rest), path)

TempDir == <<"/tmp/tmpXk2">>

\* f = path + "/" + f, for each name of the path.
RECURSIVE pathText(_)
pathText(names) ==
    IF names = <<>> THEN <<>> ELSE <<"/", Head(names)>> \o pathText(Tail(names))

\* '/bin/mv %s %s' % (backup_root, ...): how the root is written into the
\* command; None is written as the word None.
mvSource(root) == IF root.found THEN TempDir \o pathText(root.path) ELSE <<"None">>

\* The path the command names exists: the root found, or an entry called
\* None of the working directory.
sourceExists(root, none) == root.found \/ none

\* backup_root = self._rst_get_backup_root(temp_dir)
SearchRoot ==
    /\ pc = "idle"
    /\ io.call = "none"
    /\ io' = [io EXCEPT !.call = "search", !.root = get_backup_root(io.tree, <<>>)]
    /\ UNCHANGED <<ctl, cluster, files, now, mem, dataIsData, wal, dirs, session, budget>>

\* os.system(mv_command): the command's result is not looked at.
MoveRoot ==
    /\ pc = "idle"
    /\ io.call = "search"
    /\ \E ok \in BOOLEAN :
         io' = [io EXCEPT !.call = "move",
                          !.source = mvSource(io.root),
                          !.moved = ok /\ sourceExists(io.root, io.none)]
    /\ UNCHANGED <<ctl, cluster, files, now, mem, dataIsData, wal, dirs, session, budget>>

InitSearch ==
    /\ InitCommon
    /\ io \in [call : {"none"}, tree : Trees, none : BOOLEAN, root : {NoRoot},
               source : {<<>>}, moved : {FALSE}]
    /\ wal = NoWal
    /\ budget = MaxCalls
    /\ conf = NoFile
    /\ hba = NoFile
    /\ pidFile = FALSE
    /\ procAlive = FALSE
    /\ mem = HostMemKB
    /\ dataIsData = TRUE
    /\ sibData = NoDataDir
    /\ bdir = [d \in Dirs |-> NoBackupDir]

NextSearch ==
    \/ SearchRoot
    \/ MoveRoot

SpecSearch == InitSearch /\ [][NextSearch]_vars

(***************************************************************************)
(* The whole program: commands are run one after the other.                *)
(***************************************************************************)
\* A second of wall-clock time passes between two commands.
Tick ==
    /\ pc = "idle"
    /\ now < MaxTime
    /\ now' = now + 1
    /\ UNCHANGED <<ctl, cluster, files, mem, dataIsData, wal, io, dirs, session, budget>>

NextStore ==
    \/ \E table \in Tables, data \in Docs : StoreWrite(table, data)
    \/ StoreRead
    \/ Tick

SpecStore == InitStore /\ [][NextStore]_vars

\* A base backup taken by an earlier enable, while conf and hba were cf, hf.
EarlierBackup(cf, hf) ==
    [exists |-> TRUE, base |-> [kind |-> "full", conf |-> cf, hba |-> hf],
     old |-> NoTar]

Init ==
    /\ InitCommon
    /\ wal = NoWal
    /\ io = NoCall
    /\ budget = MaxOps
    /\ conf \in {CompliantConf(NoOpCommand),
                 CompliantConf(EnabledCommand(DirPath("b1"))),
                 BrokenConf,
                 ConfFile(<<"minimal">>, <<"1", "0">>, <<"3", "2">>, <<"on">>,
                          NoOpCommand, <<"'", "off", "'">>, <<"'", "escape", "'">>,
                          <<>>)}
    /\ hba = File(<<HbaAll, HbaRepl, HbaHost>>)
    /\ pidFile \in BOOLEAN
    /\ procAlive \in BOOLEAN
    /\ procAlive => pidFile
    /\ mem = HostMemKB
    /\ dataIsData \in BOOLEAN
    /\ sibData \in IF dataIsData THEN {NoDataDir}
                   ELSE {NoDataDir, [ClusterDir EXCEPT !.content = "none"]}
    /\ bdir \in {[d \in Dirs |-> NoBackupDir],
                 [d \in Dirs |-> IF d = "b1" THEN EarlierBackup(conf, hba)
                                 ELSE NoBackupDir]}

Next ==
    \/ RestoreBegin
    \/ RestoreShutdown
    \/ RestoreQuarantine
    \/ RestoreRemove
    \/ RestoreExtract
    \/ RestoreMove
    \/ RestoreRecovery
    \/ RestoreStart
    \/ \E d \in Dirs : EnableBegin(d)
    \/ EnableStart
    \/ EnableConf
    \/ EnableRotate
    \/ EnableBaseBackup
    \/ \E d \in Dirs, enable \in {"off", "purge"} : Disable(d, enable)
    \/ \E autotuning \in BOOLEAN : SystemCheck(autotuning)
    \/ RestartStop
    \/ RestartStart
    \/ Tick

Spec == Init /\ [][Next]_vars

\* Sequences of commands on one installation: a running cluster with the
\* configuration reconciliation leaves, a data directory named "data" and no
\* backup taken yet.
InitSeq ==
    /\ InitCommon
    /\ wal = NoWal
    /\ io = NoCall
    /\ budget = MaxSeq
    /\ conf = CompliantConf(NoOpCommand)
    /\ hba = File(<<HbaAll, HbaRepl, HbaHost>>)
    /\ pidFile = TRUE
    /\ procAlive = TRUE
    /\ mem = HostMemKB
    /\ dataIsData = TRUE
    /\ sibData = NoDataDir
    /\ bdir = [d \in Dirs |-> NoBackupDir]

SpecSeq == InitSeq /\ [][Next]_vars

(***************************************************************************)
(* Properties                                                              *)
(***************************************************************************)
\* The compression ratio of do_backup_restore ("ratio = 0.134"), per mille.
RatioPerMille == 134

\* The space predicted to remain after a restore, as the message "Predicted
\* space" computes it, is at least 1 GiB.
PredictedEnough(s) ==
    s.avail * 1000 - s.cur * RatioPerMille - s.bk * 1000 >= MinFree * 1000

\* The stage of the restore workflow an external effect belongs to.
stage(e) ==
    CASE e \in {"stop:ok", "stop:failed", "stop:noop"} -> 1
      [] e \in {"quarantine:ok", "quarantine:failed"} -> 2
      [] e = "rmtree" -> 3
      [] e \in {"extract:ok", "extract:failed"} -> 4
      [] e \in {"mv:ok", "mv:failed"} -> 5
      [] e = "recovery" -> 6
      [] e \in {"start:ok", "start:failed", "start:noop"} -> 7
      [] OTHER -> 0

\* Some effect of the given stage is in the trace.
reached(tr, n) == \E i \in DOMAIN tr : stage(tr[i]) = n

\* C1: the restore precondition passes exactly when
\* available - current * 0.134 - backup >= 1 GiB: once du and df have
\* reported, the restore goes on to the shutdown if and only if that holds.
C1_PassesByRatio ==
    sizes # NoSizes => ((pc = "rst_shutdown") <=> PredictedEnough(sizes))

\* C2: a restore that ends on a failed precondition (no backup, not enough
\* space) ends at once and has changed nothing: the cluster's process, every
\* file and every directory are as before, and no step has left an effect.
C2_AbortChangesNothing ==
    [][(op' = "restore" /\ result' \in {"no_backup", "no_space"})
       => /\ pc' = "idle"
          /\ trace' = <<>>
          /\ UNCHANGED <<cluster, files, dirs>>]_vars

C2_Witness ==
    /\ op = "restore" /\ pc = "idle" /\ result = "no_space"
    /\ procAlive /\ pgData = ClusterDir /\ ~oldDir.exists

\* C3: the steps of a restore take effect in the order shutdown, quarantine,
\* delete, extract, move, recovery.conf, start; directories change only
\* while the cluster is not running, the data directory only after the
\* quarantine step; the start comes after the move and the recovery.conf
\* write; a stop that leaves the cluster running ends the restore with
\* nothing deleted or replaced.
C3_RestoreOrder ==
    [][op' = "restore"
       => /\ \A i, j \in DOMAIN trace' :
                i < j => stage(trace'[i]) < stage(trace'[j])
          /\ (pgData' # pgData \/ sibData' # sibData \/ oldDir' # oldDir)
                => ~_get_db_status
          /\ (pgData' # pgData \/ sibData' # sibData) => reached(trace, 2)
          /\ (reached(trace', 7) /\ ~reached(trace, 7))
                => /\ reached(trace, 5) /\ reached(trace, 6)
                   /\ Target.recovery = RecoveryConf(rst.dst)
          /\ result' = "stop_failed"
                => /\ pc' = "idle"
                   /\ ~reached(trace', 2) /\ ~reached(trace', 3)
                   /\ UNCHANGED <<files, dirs>>]_vars

C3_Witness ==
    /\ op = "restore" /\ result = "done"
    /\ trace = <<"stop:ok", "quarantine:ok", "rmtree", "extract:ok", "mv:ok",
                 "recovery", "start:ok">>
    /\ pgData.content = "restored" /\ procAlive

\* C4: a failed external command stops the restore at that step: after a
\* failed quarantine tar the data directory is not deleted; after a failed
\* extraction or move no recovery.conf is written and no start is attempted.
C4_FailedCommandStops ==
    op = "restore"
    => /\ contains(trace, "quarantine:failed") => ~reached(trace, 3)
       /\ (contains(trace, "extract:failed") \/ contains(trace, "mv:failed"))
            => ~reached(trace, 6) /\ ~reached(trace, 7)

\* C5: in every workflow, a stop that leaves the cluster running is the last
\* thing the workflow does.
C5_FailedStopIsLast ==
    \A i \in DOMAIN trace : trace[i] = "stop:failed" => i = Len(trace)

\* The destination the archive command of postgresql.conf cf names.
NamedDestination(cf) ==
    destinationOf(split(str(get(_get_conf(cf).conf, K("archive_command"),
                                PyStr(<<>>))), " "), FALSE).dst

\* C6: a restore started on a readable configuration whose archive command
\* names no destination, or names a directory that is not on disk, ends with
\* the outcome "no backup available".
C6_NoBackupOutcome ==
    [][(pc = "idle" /\ op' = "restore" /\ budget' # budget
        /\ pgData.exists /\ _get_conf(conf).ok
        /\ (NamedDestination(conf) = <<>>
            \/ ~dirExists(bdir, NamedDestination(conf))))
       => (pc' = "idle" /\ result' = "no_backup")]_vars

\* int(s) for a text of decimal digits.
RECURSIVE number(_)
number(s) ==
    IF s = <<>> THEN 0
    ELSE number(SubSeq(s, 1, Len(s) - 1)) * 10 + (ord[s[Len(s)]] - ord["0"])

\* The configuration read back from a file.
stored(cf) == _get_conf(cf).conf

\* The policy of the reconciliation, on a configuration read from a file.
Compliant(d) ==
    /\ truthy(get(d, K("wal_level"), PyNone))
    /\ ~eqStr(get(d, K("wal_level"), PyNone), <<"minimal">>)
    /\ truthy(get(d, K("max_wal_senders"), PyNone))
    /\ number(str(get(d, K("max_wal_senders"), PyNone))) >= 5
    /\ truthy(get(d, K("wal_keep_segments"), PyNone))
    /\ ~eqStr(get(d, K("wal_keep_segments"), PyNone), <<"0">>)
    /\ eqStr(get(d, K("archive_mode"), PyNone), <<"on">>)
    /\ eqStr(get(d, K("archive_command"), PyNone), NoOpCommand)
    /\ eqStr(get(d, K("standard_conforming_strings"), PyNone), <<"'", "off", "'">>)
    /\ eqStr(get(d, K("bytea_output"), PyNone), <<"'", "escape", "'">>)

\* C7: a reconciliation run right after a run with the same option changes
\* nothing: changed and hba_changed are false, both files are as they were,
\* nothing is written and no stop or start is performed.
C7_SecondRunChangesNothing ==
    (chk.runs >= 2 /\ chk.opt = chk.prevOpt)
    => /\ chk.completed
       /\ ~chk.changed /\ ~chk.hba_changed
       /\ conf = chk.preConf /\ hba = chk.preHba
       /\ trace = <<>>
       /\ pc = "idle" /\ result = "done"

C7_Witness ==
    /\ chk.runs = 2 /\ chk.opt = "autotuning" /\ chk.prevOpt = "autotuning"
    /\ confSib[0].exists /\ hbaSib[0].exists
    /\ ~chk.changed /\ conf = chk.preConf /\ stored(conf) # stored(confSib[0])

\* C8: after a completed reconciliation the stored postgresql.conf satisfies
\* every rule of the policy.
C8_StoredConfCompliant ==
    (chk.runs >= 1 /\ chk.completed /\ pc = "idle") => Compliant(stored(conf))

\* C9: a parameter whose value complies before a reconciliation (a numeric
\* max_wal_senders >= 5, a nonzero wal_keep_segments, a wal_level other than
\* minimal) has the same value after it.
C9_CompliantValuesKept ==
    (chk.runs = 1 /\ chk.completed /\ pc = "idle")
    => LET pre  == stored(chk.preConf)
           post == stored(conf)
           kept(k) == get(post, K(k), PyNone) = get(pre, K(k), PyNone)
       IN /\ (truthy(get(pre, K("max_wal_senders"), PyNone))
              /\ number(str(get(pre, K("max_wal_senders"), PyNone))) >= 5)
                => kept("max_wal_senders")
          /\ (truthy(get(pre, K("wal_keep_segments"), PyNone))
              /\ ~eqStr(get(pre, K("wal_keep_segments"), PyNone), <<"0">>))
                => kept("wal_keep_segments")
          /\ (truthy(get(pre, K("wal_level"), PyNone))
              /\ ~eqStr(get(pre, K("wal_level"), PyNone), <<"minimal">>))
                => kept("wal_level")

\* C10 as stated: when the configuration or the authentication rules changed,
\* both files are written.
C10_BothPersisted ==
    (op = "check" /\ chk.completed /\ (chk.changed \/ chk.hba_changed))
    => contains(trace, "write_conf") /\ contains(trace, "write_hba")

\* C10, amended: a reconciliation writes postgresql.conf exactly when changed
\* is set and pg_hba.conf exactly when hba_changed is set, each time keeping
\* the previous file as a timestamped sibling; it goes on to the restart
\* (stop when running, then start) exactly when one of the two is set, and
\* otherwise ends with no file, sibling or process touched.
C10_EachFileByItsFlag ==
    [][(op' = "check" /\ chk'.runs # chk.runs /\ chk'.completed)
       => /\ IF chk'.changed
             THEN /\ confSib' = [confSib EXCEPT ![now] = conf]
                  /\ conf'.exists /\ conf' # conf
                  /\ contains(trace', "write_conf")
             ELSE UNCHANGED <<conf, confSib>> /\ ~contains(trace', "write_conf")
          /\ IF chk'.hba_changed
             THEN /\ hbaSib' = [hbaSib EXCEPT ![now] = hba]
                  /\ hba'.exists /\ hba' # hba
                  /\ contains(trace', "write_hba")
             ELSE UNCHANGED <<hba, hbaSib>> /\ ~contains(trace', "write_hba")
          /\ (pc' = "restart_stop") <=> (chk'.changed \/ chk'.hba_changed)
          /\ (pc' = "idle") <=> ~(chk'.changed \/ chk'.hba_changed)
          /\ UNCHANGED cluster]_vars

C10_Witness ==
    /\ op = "check" /\ chk.runs = 1 /\ pc = "idle" /\ result = "done"
    /\ chk.changed /\ ~chk.hba_changed
    /\ confSib[0] = chk.preConf /\ conf # chk.preConf
    /\ hba = chk.preHba /\ ~hbaSib[0].exists
    /\ trace = <<"write_conf", "stop:ok", "start:ok">>

\* C11: after a completed reconciliation of a pg_hba.conf whose rule table
\* lacks (local, replication, postgres, peer), the table read back from the
\* stored file is the previous table with that rule appended (so the rule is
\* there once, last, after the previous rules in their order) and
\* hba_changed is set; a file whose table has the rule is left as it is and
\* hba_changed is not set.
C11_RuleAppended ==
    (chk.runs >= 1 /\ chk.completed)
    => LET pre  == readHba(chk.preHba.lines)
           post == readHba(hba.lines)
       IN IF contains(pre, replication_cfg)
          THEN hba = chk.preHba /\ ~chk.hba_changed
          ELSE /\ post = Append(pre, replication_cfg)
               /\ Cardinality({i \in DOMAIN post : post[i] = replication_cfg}) = 1
               /\ chk.hba_changed

C11_Witness ==
    /\ chk.runs = 1 /\ chk.completed /\ chk.hba_changed /\ pc = "idle"
    /\ Len(readHba(chk.preHba.lines)) = 2
    /\ readHba(hba.lines) = Append(readHba(chk.preHba.lines), replication_cfg)
    /\ hbaSib[0] = chk.preHba

\* C12: when enable has written a new archive command, the base-backup
\* rotation and the base backup begin only after a stop and a start of the
\* cluster have both succeeded, with the cluster running.
C12_RestartedBeforeBackup ==
    (op = "enable" /\ contains(trace, "write_conf")
     /\ pc \in {"en_rotate", "en_backup"})
    => /\ contains(trace, "stop:ok")
       /\ contains(trace, "start:ok")
       /\ _get_db_status

\* C13: an enable that found the cluster stopped and started it with success
\* runs to completion and ends with the cluster running.
C13_StartedEnableCompletes ==
    (op = "enable" /\ pc = "idle" /\ trace # <<>> /\ trace[1] = "start:ok")
    => result = "done" /\ _get_db_status

\* The archive command stored in postgresql.conf cf is not cmd.
differs(cf, cmd) ==
    ~eqStr(get(stored(cf), K("archive_command"), PyStr(<<>>)), cmd)

\* A start of the cluster follows the write of postgresql.conf.
restarted(tr) ==
    \E i, j \in DOMAIN tr : i < j /\ tr[i] = "write_conf" /\ stage(tr[j]) = 7

\* C14: a call of enable or disable rewrites the archive command exactly
\* when the stored one differs from the value the call requires, and a call
\* that rewrote it restarts the cluster before it ends, while a call that
\* did not rewrite it stops nothing.
C14_RewriteAndRestartIffDiffers ==
    [][/\ (pc = "en_conf" /\ pc' # pc)
            => /\ differs(conf, EnabledCommand(arg.dir)) <=> (conf' # conf)
               /\ differs(conf, EnabledCommand(arg.dir)) <=> (pc' = "restart_stop")
       /\ (pc = "idle" /\ op' = "disable" /\ budget' # budget
           /\ result' # "GateException")
            => /\ differs(conf, NoOpCommand) <=> (conf' # conf)
               /\ differs(conf, NoOpCommand) <=> (pc' = "restart_stop")
       /\ (op \in {"enable", "disable"} /\ pc # "idle" /\ pc' = "idle")
            => /\ contains(trace', "write_conf") => restarted(trace')
               /\ reached(trace', 1) => contains(trace', "write_conf")]_vars

\* C15: base.tar.gz of a backup destination is never a partially written
\* backup.
C15_BaseNeverPartial ==
    \A d \in Dirs : bdir[d].base.kind # "partial"

\* C16: an archive operation whose source does not exist or whose destination
\* exists ends with an error and changes no file; no archive operation
\* changes a destination that exists; a destination is written only from an
\* existing source, holding that source's content.
C16_NeverOverwrites ==
    [][(op' = "archive" /\ budget' # budget)
       => LET source == arg'.source
              dest   == arg'.dir
          IN /\ (dest # "" /\ (source = "" \/ wal.src[source] = ""
                              \/ wal.dst[dest].kind # "absent"))
                  => result' = "GateException" /\ wal' = wal
             /\ \A d \in Dsts : wal.dst[d].kind # "absent" => wal'.dst[d] = wal.dst[d]
             /\ wal'.src = wal.src
             /\ \A d \in Dsts : wal'.dst[d] # wal.dst[d]
                  => /\ d = dest /\ source # "" /\ wal.src[source] # ""
                     /\ wal'.dst[d].data = wal.src[source]]_vars

C16_Witness ==
    /\ op = "archive" /\ budget = 0 /\ result = "GateException"
    /\ arg.source = "s1" /\ arg.dir = "d1"
    /\ wal.dst["d1"] = Seg("full", "A") /\ wal.src["s1"] = "A"

\* C17: no destination path ever holds a partially copied file.
C17_NoPartialCopy ==
    \A d \in Dsts : wal.dst[d].kind # "partial"

\* A step that is a call of _write_conf.
WriteStep == io'.call = "write" /\ budget' # budget

\* The number of timestamped siblings of the path.
nSiblings(sib) == Cardinality({t \in Times : sib[t].exists})

\* C18: a call of _write_conf with neither a document nor a table changes
\* nothing (the file stays with its content, no sibling is created, no error
\* is raised), and a call with both raises an error and leaves the content
\* of the file as it was.
C18_ExactlyOneKind ==
    [][WriteStep
       => /\ (io'.table = <<>> /\ DOMAIN io'.data = {})
               => conf' = conf /\ confSib' = confSib /\ ~io'.raised
          /\ (io'.table # <<>> /\ DOMAIN io'.data # {})
               => io'.raised /\ conf' = conf]_vars

\* C19: a call of _write_conf that supplies a document or a table, onto an
\* existing path, adds exactly one sibling, which holds the content the file
\* had before the call and whose timestamp is returned, and keeps every
\* sibling there was; onto a path that does not exist it adds no sibling and
\* returns none.
C19_BackupBeforeOverwrite ==
    [][(WriteStep /\ (io'.table # <<>> \/ DOMAIN io'.data # {}))
       => IF conf.exists
          THEN /\ ~io'.raised /\ io'.backup = now
               /\ confSib'[now] = conf
               /\ nSiblings(confSib') = nSiblings(confSib) + 1
               /\ \A t \in Times : confSib[t].exists => confSib'[t] = confSib[t]
          ELSE /\ ~io'.raised /\ io'.backup = -1
               /\ confSib' = confSib]_vars

\* C20: _get_conf called after _write_conf has written a document none of
\* whose values holds '=' gives a document with the same keys, each with the
\* text of the value written.
C20_RoundTrip ==
    [][(io.call = "write" /\ io'.call = "read" /\ budget' # budget
        /\ io.table = <<>> /\ DOMAIN io.data # {}
        /\ \A k \in DOMAIN io.data : ~contains(str(io.data[k]), "="))
       => /\ io'.ok
          /\ DOMAIN io'.conf = DOMAIN io.data
          /\ \A k \in DOMAIN io.data : io'.conf[k] = PyStr(str(io.data[k]))]_vars

\* Some line of the file is not blank, is no comment and has no '='.
malformed(file) ==
    /\ file.exists
    /\ \E i \in DOMAIN file.lines :
         /\ strip(file.lines[i]) # <<>>
         /\ Head(strip(file.lines[i])) # "#"
         /\ ~contains(file.lines[i], "=")

\* C21: reading a configuration file one of whose lines is not blank, is no
\* comment and has no '=' fails and names such a line; and every command that
\* reads the configuration (enable, disable, restore with its backup status,
\* reconciliation), run on such a file, ends at once with the error and has
\* written or renamed no file, made or removed no directory and issued no
\* stop or start.
C21_ParseErrorAborts ==
    [][(pc = "idle" /\ budget' # budget /\ malformed(conf) /\ pgData.exists
        /\ op' \in {"enable", "disable", "restore", "check"})
       => /\ ~_get_conf(conf).ok
          /\ \E i \in DOMAIN conf.lines :
               /\ _get_conf(conf).line = strip(conf.lines[i])
               /\ ~contains(conf.lines[i], "=")
          /\ pc' = "idle"
          /\ result' \in {"GateException", "Exception"}
          /\ trace' = <<>>
          /\ UNCHANGED <<cluster, files, dirs>>]_vars

C21_Witness ==
    /\ op = "restore" /\ budget = 0 /\ result = "GateException"
    /\ conf = BrokenConf /\ bdir["b1"].base.kind = "full"
    /\ pidFile /\ procAlive

\* C22: _get_db_status reports running if and only if the marker file exists
\* and the process id on its first line is that of a live process; a marker
\* whose first line is empty gives not running.
C22_RunningIffLiveMarker ==
    io.call = "status"
    => (io.running <=> /\ io.marker.exists
                       /\ strip(readline(io.marker)) # <<>>
                       /\ strip(readline(io.marker)) \in io.live)

\* The place of the first operation of a kind in a sequence of operations
\* (0 when there is none).
first(ops, do) ==
    IF \E i \in DOMAIN ops : ops[i].do = do
    THEN CHOOSE i \in DOMAIN ops : ops[i].do = do /\ \A j \in 1..(i - 1) : ops[j].do # do
    ELSE 0

\* C23: a start called while the cluster is running, and a stop called while
\* it is not, report failure and do nothing: no server command, no socket
\* artifact removed, the cluster as it was.  A start that acts removes the
\* socket artifacts before the server command, a stop that acts after it;
\* both leave the working directory as it was before the call.
C23_NoOpOrOrdered ==
    [][(pc = "idle" /\ budget' # budget /\ op' \in {"start", "stop"} /\ pgData.exists)
       => /\ io'.cwd = io.cwd
          /\ IF (op' = "start") = _get_db_status
             THEN /\ io'.ops = <<>>
                  /\ io'.sockets = io.sockets
                  /\ UNCHANGED cluster
                  /\ trace'[Len(trace')] \in {"start:noop", "stop:noop"}
             ELSE /\ first(io'.ops, "pg_ctl") > 0
                  /\ first(io'.ops, "cleanup") > 0
                  /\ (op' = "start") = (first(io'.ops, "cleanup") < first(io'.ops, "pg_ctl"))
                  /\ io'.sockets = {}]_vars

C23_Witness ==
    /\ op = "stop" /\ budget = 0 /\ io.call = "stop"
    /\ io.ops # <<>> /\ ~pidFile /\ io.cwd = "/root"
    /\ \E i \in DOMAIN trace : trace[i] = "start:noop"

\* Every step of the restore up to the writing of recovery.conf succeeded.
StepsOk(tr) ==
    /\ contains(tr, "quarantine:ok")
    /\ contains(tr, "rmtree")
    /\ contains(tr, "extract:ok")
    /\ contains(tr, "mv:ok")
    /\ contains(tr, "recovery")

\* C24: once every step of a restore has succeeded, the configured data
\* directory exists again at its own path, holds the extracted cluster and a
\* recovery.conf whose restore_command copies from the backup destination,
\* whatever the last component of the path.
C24_RestoredInPlace ==
    (op = "restore" /\ StepsOk(trace))
    => /\ pgData.exists
       /\ pgData.content = "restored"
       /\ pgData.recovery = RecoveryConf(rst.dst)

\* C25: the restore removes the data directory only while the backup
\* destination holds base.tar.gz.
C25_RemovesOnlyWithBase ==
    [][(pc = "rst_remove" /\ pgData.exists /\ ~pgData'.exists)
       => BaseOf(bdir, rst.dst).kind # "absent"]_vars

\* What backup status reports with backups off and no destination.
StatusOff == [raised |-> "", dst |-> <<>>, on |-> FALSE]

entry(fpath, name) == fpath[CHOOSE i \in DOMAIN fpath : fpath[i].name = name]

position(fpath, name) == CHOOSE i \in DOMAIN fpath : fpath[i].name = name

RECURSIVE dirsOf(_, _)
dirsOf(fpath, path) ==
    {path} \cup UNION { dirsOf(fpath[i].sub, Append(path, fpath[i].name)) :
                          i \in {j \in DOMAIN fpath : fpath[j].dir} }

RECURSIVE listingAt(_, _)
listingAt(fpath, path) ==
    IF path = <<>> THEN fpath
    ELSE listingAt(entry(fpath, Head(path)).sub, Tail(path))

\* p comes before q when the tree is walked depth first, each directory
\* before its children and the children in the order of the listing.
RECURSIVE precedes(_, _, _)
precedes(fpath, p, q) ==
    IF p = <<>> THEN q # <<>>
    ELSE IF q = <<>> THEN FALSE
    ELSE IF Head(p) = Head(q)
    THEN precedes(entry(fpath, Head(p)).sub, Tail(p), Tail(q))
    ELSE position(fpath, Head(p)) < position(fpath, Head(q))

\* The directories of a tree that hold backup_label.
Labelled(tree) == {p \in dirsOf(tree, <<>>) : hasLabel(listingAt(tree, p))}

\* C27: the search returns the first directory holding backup_label, a
\* directory coming before its children and these in the order of the
\* listing, when the tree has one, and none when it has not; after a search
\* that returned none nothing is moved into place.
C27_FirstRootOrNoMove ==
    io.call \in {"search", "move"}
    => IF Labelled(io.tree) = {}
       THEN ~io.root.found /\ ~io.moved
       ELSE /\ io.root.found
            /\ io.root.path \in Labelled(io.tree)
            /\ \A q \in Labelled(io.tree) \ {io.root.path} :
                 precedes(io.tree, io.root.path, q)

====
